---- MODULE Spec2Model ----
(***************************************************************************)
(* A model of src/src/data_cleaning.py: the sales-data cleaning pipeline.  *)
(*                                                                         *)
(* Text is a sequence of one-character strings, so that strip, lower,      *)
(* replace, title and the substring test are computed character by         *)
(* character, as the library calls of the source compute them.  A table    *)
(* is a record of its column labels and its rows; a row carries the        *)
(* pandas index label it was loaded with, which every stage keeps.         *)
(***************************************************************************)
EXTENDS Integers, Sequences, FiniteSets, TLC

VARIABLES
    pc,         \* the statement of the entry point that runs next
    csv,        \* the raw file at raw_path: its header and its text rows
    csv_exists, \* whether raw_path names a file
    df_raw,     \* the entry point's df_raw
    df_prev,    \* the table df_clean was bound to before its last rebinding
    df_clean,   \* the entry point's df_clean
    out_csv,    \* the table written to cleaned_path
    written,    \* how many times cleaned_path has been written
    events,     \* the calls of the entry point so far, in order
    err         \* the exception that ended the run, "none" while there is none

vars == <<pc, csv, csv_exists, df_raw, df_prev, df_clean, out_csv, written, events, err>>

----------------------------------------------------------------------------
(* Bounds of the model. *)

\* the largest number of padding characters put around a text of the pools,
\* before and after it together
MaxPad == 3

\* the largest number of rows of a table of the row pool
MaxRows == 3

----------------------------------------------------------------------------
(* Characters and text. *)

Uppers == <<"A","B","C","D","E","F","G","H","I","J","K","L","M",
            "N","O","P","Q","R","S","T","U","V","W","X","Y","Z">>

Lowers == <<"a","b","c","d","e","f","g","h","i","j","k","l","m",
            "n","o","p","q","r","s","t","u","v","w","x","y","z">>

Digits == <<"0","1","2","3","4","5","6","7","8","9">>

\* what str.strip() strips and the regular expression \s matches: of the
\* whitespace characters, the two the pools use
Whitespace == {" ", "\t"}

QuoteChar == "\""

MinOf(S) == CHOOSE x \in S : \A y \in S : x <= y

MaxOf(S) == CHOOSE x \in S : \A y \in S : x >= y

IsUpper(c) == \E i \in 1..Len(Uppers) : Uppers[i] = c

IsLower(c) == \E i \in 1..Len(Lowers) : Lowers[i] = c

IsCased(c) == IsUpper(c) \/ IsLower(c)

IsDigit(c) == \E i \in 1..Len(Digits) : Digits[i] = c

LowerChar(c) ==
    IF IsUpper(c) THEN Lowers[CHOOSE i \in 1..Len(Uppers) : Uppers[i] = c] ELSE c

UpperChar(c) ==
    IF IsLower(c) THEN Uppers[CHOOSE i \in 1..Len(Lowers) : Lowers[i] = c] ELSE c

DigitVal(c) == (CHOOSE i \in 1..Len(Digits) : Digits[i] = c) - 1

RECURSIVE LStripChars(_, _)
LStripChars(s, chars) ==
    IF s # <<>> /\ Head(s) \in chars THEN LStripChars(Tail(s), chars) ELSE s

RECURSIVE RStripChars(_, _)
RStripChars(s, chars) ==
    IF s # <<>> /\ s[Len(s)] \in chars
    THEN RStripChars(SubSeq(s, 1, Len(s) - 1), chars)
    ELSE s

\* str.strip(chars)
StripChars(s, chars) == RStripChars(LStripChars(s, chars), chars)

\* str.strip()
Strip(s) == StripChars(s, Whitespace)

\* str.lower()
Lower(s) == [i \in 1..Len(s) |-> LowerChar(s[i])]

\* str.replace(" ", "_")
ReplaceSpaces(s) == [i \in 1..Len(s) |-> IF s[i] = " " THEN "_" ELSE s[i]]

\* str.replace(r"\s+", " ", regex=True): every maximal run of whitespace,
\* wherever it stands, becomes one space
RECURSIVE CollapseWhitespace(_)
CollapseWhitespace(s) ==
    IF s = <<>> THEN <<>>
    ELSE IF Head(s) \in Whitespace
         THEN <<" ">> \o CollapseWhitespace(LStripChars(s, Whitespace))
         ELSE <<Head(s)>> \o CollapseWhitespace(Tail(s))

\* str.title(): a cased character is upper case when the character before it
\* is not cased, lower case otherwise
Title(s) ==
    [i \in 1..Len(s) |->
        IF i > 1 /\ IsCased(s[i - 1]) THEN LowerChar(s[i]) ELSE UpperChar(s[i])]

\* sub in s
Contains(sub, s) ==
    \E i \in 0..(Len(s) - Len(sub)) : SubSeq(s, i + 1, i + Len(sub)) = sub

----------------------------------------------------------------------------
(* Cells.  k names what a cell holds: "str" a text s; "int" the integer n  *)
(* (a cell of an int64 column); "float" the decimal n / 10^e, with n not   *)
(* divisible by 10 unless e = 0 (a cell of a float64 column); "nan" the    *)
(* missing marker NaN; "date" the calendar day n = yyyymmdd (a cell of a   *)
(* datetime64 column); "nat" the missing marker NaT.                       *)

StrCell(s) == [k |-> "str", s |-> s, n |-> 0, e |-> 0]

IntCell(n) == [k |-> "int", s |-> <<>>, n |-> n, e |-> 0]

FloatCell(n, e) == [k |-> "float", s |-> <<>>, n |-> n, e |-> e]

NaN == [k |-> "nan", s |-> <<>>, n |-> 0, e |-> 0]

DateCell(n) == [k |-> "date", s |-> <<>>, n |-> n, e |-> 0]

NaT == [k |-> "nat", s |-> <<>>, n |-> 0, e |-> 0]

IsNumber(c) == c.k \in {"int", "float"}

\* Series.isna()
IsNA(c) == c.k \in {"nan", "nat"}

RECURSIVE DigitsVal(_)
DigitsVal(ds) ==
    IF ds = <<>> THEN 0
    ELSE 10 * DigitsVal(SubSeq(ds, 1, Len(ds) - 1)) + DigitVal(ds[Len(ds)])

RECURSIVE Canonical(_, _)
Canonical(n, e) ==
    IF e > 0 /\ n % 10 = 0 THEN Canonical(n \div 10, e - 1) ELSE [n |-> n, e |-> e]

\* The numeric reading of a text, as read_csv and to_numeric take it: an
\* optional sign, digits, and at most one decimal point with a digit on at
\* least one side.  ok: the text is a number; int: it has no decimal point;
\* n, e: its value n / 10^e.  (pandas also reads exponents, "inf" and padded
\* numbers; the pools hold none of these.)
ParseNumber(s) ==
    LET signed == s # <<>> /\ Head(s) \in {"+", "-"}
        body   == IF signed THEN Tail(s) ELSE s
        dots   == {i \in 1..Len(body) : body[i] = "."}
        dot    == IF dots = {} THEN Len(body) + 1 ELSE CHOOSE i \in dots : TRUE
        ip     == SubSeq(body, 1, dot - 1)
        fp     == SubSeq(body, dot + 1, Len(body))
        ok     == /\ Cardinality(dots) <= 1
                  /\ Len(ip) + Len(fp) >= 1
                  /\ \A i \in 1..Len(ip) : IsDigit(ip[i])
                  /\ \A i \in 1..Len(fp) : IsDigit(fp[i])
        mag    == IF ok THEN DigitsVal(ip \o fp) ELSE 0
        val    == Canonical(IF signed /\ Head(s) = "-" THEN 0 - mag ELSE mag, Len(fp))
    IN  [ok |-> ok, int |-> ok /\ dots = {}, n |-> val.n, e |-> val.e]

RECURSIVE FormatNat(_)
FormatNat(n) ==
    IF n < 10 THEN <<Digits[n + 1]>> ELSE FormatNat(n \div 10) \o <<Digits[(n % 10) + 1]>>

RECURSIVE ZeroPad(_, _)
ZeroPad(ds, width) == IF Len(ds) >= width THEN ds ELSE ZeroPad(<<"0">> \o ds, width)

Abs(n) == IF n < 0 THEN 0 - n ELSE n

\* str(x) of a float64: the shortest decimal, with at least one fraction digit
\* (values of magnitude in [1e-4, 1e16), which str prints without an exponent)
FormatFloat(n, e) ==
    LET ds == ZeroPad(FormatNat(Abs(n)), e + 1)
        ip == SubSeq(ds, 1, Len(ds) - e)
        fp == IF e = 0 THEN <<"0">> ELSE SubSeq(ds, Len(ds) - e + 1, Len(ds))
    IN  (IF n < 0 THEN <<"-">> ELSE <<>>) \o ip \o <<".">> \o fp

FormatDate(n) ==
    ZeroPad(FormatNat(n \div 10000), 4) \o <<"-">>
        \o ZeroPad(FormatNat((n \div 100) % 100), 2) \o <<"-">>
        \o ZeroPad(FormatNat(n % 100), 2)

\* Series.astype(str), one element
astype_str(c) ==
    CASE c.k = "str"   -> c.s
      [] c.k = "int"   -> (IF c.n < 0 THEN <<"-">> ELSE <<>>) \o FormatNat(Abs(c.n))
      [] c.k = "float" -> FormatFloat(c.n, c.e)
      [] c.k = "nan"   -> <<"n", "a", "n">>
      [] c.k = "date"  -> FormatDate(c.n)
      [] c.k = "nat"   -> <<"N", "a", "T">>

IsLeap(y) == (y % 4 = 0 /\ y % 100 # 0) \/ y % 400 = 0

DaysIn(y, m) ==
    IF m = 2 THEN (IF IsLeap(y) THEN 29 ELSE 28)
    ELSE IF m \in {4, 6, 9, 11} THEN 30 ELSE 31

\* The date reading of a text, on the ISO form YYYY-MM-DD: the day it names
\* when it names one a Timestamp can hold, NaT otherwise.  (The parser of
\* to_datetime is permissive and reads other notations as well; the texts of
\* the pools are ISO dates or texts no notation reads as a date.)
ParseDate(s) ==
    LET shaped == /\ Len(s) = 10
                  /\ s[5] = "-" /\ s[8] = "-"
                  /\ \A i \in {1, 2, 3, 4, 6, 7, 9, 10} : IsDigit(s[i])
        y == DigitsVal(SubSeq(s, 1, 4))
        m == DigitsVal(SubSeq(s, 6, 7))
        d == DigitsVal(SubSeq(s, 9, 10))
    IN  IF shaped /\ y \in 1678..2261 /\ m \in 1..12 /\ d \in 1..DaysIn(y, m)
        THEN DateCell(10000 * y + 100 * m + d)
        ELSE NaT

\* pd.to_datetime(errors="coerce"), one element: a text is parsed, a number
\* counts nanoseconds from 1970-01-01 (here for magnitudes below one day), a
\* missing value and a text that does not parse become NaT
to_datetime(c) ==
    CASE c.k = "str"            -> ParseDate(c.s)
      [] c.k \in {"int", "float"} -> DateCell(IF c.n >= 0 THEN 19700101 ELSE 19691231)
      [] c.k = "date"           -> c
      [] c.k \in {"nan", "nat"}   -> NaT

\* pd.to_numeric(errors="coerce") of a column: a numeric column is returned as
\* it is; in a column of texts every text that reads as a number becomes that
\* number and every other element NaN; the result is int64 when every element
\* is an integer, float64 otherwise
to_numeric(col) ==
    IF \A i \in 1..Len(col) : col[i].k \in {"int", "float", "nan"} THEN col
    ELSE LET p(i)  == ParseNumber(IF col[i].k = "str" THEN col[i].s ELSE <<>>)
             ints  == \A i \in 1..Len(col) : p(i).int
         IN  [i \in 1..Len(col) |->
                 IF ~p(i).ok THEN NaN
                 ELSE IF ints THEN IntCell(p(i).n) ELSE FloatCell(p(i).n, p(i).e)]

----------------------------------------------------------------------------
(* Tables.  cols: the column labels, in order; rows: the rows, in order,   *)
(* each with its index label idx and one cell per column.                   *)

EmptyTable == [cols |-> <<>>, rows |-> <<>>]

\* the positions of the columns labelled name: none, one, or several when
\* two headers of the file normalize to the same label
Positions(t, name) == {j \in 1..Len(t.cols) : t.cols[j] = name}

\* name in df.columns
HasColumn(t, name) == Positions(t, name) # {}

\* df[name] is a DataFrame, not a Series: the label names several columns
IsDataFrame(t, name) == Cardinality(Positions(t, name)) > 1

Pos(t, name) == CHOOSE j \in Positions(t, name) : TRUE

\* df[name], the label naming one column
Column(t, name) == [i \in 1..Len(t.rows) |-> t.rows[i].cells[Pos(t, name)]]

\* df[name] = col, the label naming one column
SetColumn(t, name, col) ==
    [t EXCEPT !.rows =
        [i \in 1..Len(t.rows) |-> [t.rows[i] EXCEPT !.cells[Pos(t, name)] = col[i]]]]

\* df.dropna(subset=names)
dropna(t, names) ==
    LET Keep(r) == \A nm \in names : ~IsNA(r.cells[Pos(t, nm)])
    IN  [t EXCEPT !.rows = SelectSeq(t.rows, Keep)]

\* what a call gives: a table, or the exception it raises
Ok(t) == [err |-> "none", df |-> t]

Raise(e) == [err |-> e, df |-> EmptyTable]

col_prodname == <<"p","r","o","d","n","a","m","e">>

col_category == <<"c","a","t","e","g","o","r","y">>

col_price == <<"p","r","i","c","e">>

col_qty == <<"q","t","y">>

col_date_sold == <<"d","a","t","e","_","s","o","l","d">>

kw_office == <<"o","f","f","i","c","e">>

kw_electronic == <<"e","l","e","c","t","r","o","n","i","c">>

kw_kitchen == <<"k","i","t","c","h","e","n">>

kw_fitness == <<"f","i","t","n","e","s","s">>

----------------------------------------------------------------------------
(* load_data *)

\* texts read_csv takes for a missing value (of its default list, those the
\* pools use)
NAValues == {<<>>, <<"N","A">>, <<"n","a","n">>}

\* read_csv's reading of one column of texts: a column whose texts are all
\* numbers or missing is int64 (no text missing, none with a decimal point) or
\* float64; any other column keeps its texts, the missing ones as NaN
read_csv_column(texts) ==
    LET missing(i) == texts[i] \in NAValues
        p(i)       == ParseNumber(texts[i])
        numeric    == /\ texts # <<>>
                      /\ \A i \in 1..Len(texts) : missing(i) \/ p(i).ok
        ints       == \A i \in 1..Len(texts) : ~missing(i) /\ p(i).int
    IN  [i \in 1..Len(texts) |->
            IF missing(i) THEN NaN
            ELSE IF ~numeric THEN StrCell(texts[i])
            ELSE IF ints THEN IntCell(p(i).n) ELSE FloatCell(p(i).n, p(i).e)]

read_csv(file) ==
    LET col(j) == read_csv_column([i \in 1..Len(file.rows) |-> file.rows[i][j]])
    IN  [cols |-> file.cols,
         rows |-> [i \in 1..Len(file.rows) |->
                     [idx |-> i - 1,
                      cells |-> [j \in 1..Len(file.cols) |-> col(j)[i]]]]]

load_data(exists, file) ==
    IF ~exists THEN Raise("FileNotFoundError") ELSE Ok(read_csv(file))

----------------------------------------------------------------------------
(* The cleaning stages. *)

\* A variant of clean_column_names that puts an underscore for the first space
\* of a label only (str.replace with count=1).
clean_column_names_first_space(df) ==
    LET First(s) == MinOf({i \in 1..Len(s) : s[i] = " "})
        Replace(s) == IF \E i \in 1..Len(s) : s[i] = " "
                      THEN [s EXCEPT ![First(s)] = "_"] ELSE s
    IN  Ok([df EXCEPT !.cols =
               [j \in 1..Len(df.cols) |-> Replace(Lower(Strip(df.cols[j])))]])

clean_column_names(df) ==
    Ok([df EXCEPT !.cols =
           [j \in 1..Len(df.cols) |-> ReplaceSpaces(Lower(Strip(df.cols[j])))]])

\* A variant of normalize_category that tests "electronic" before "office".
normalize_category_reordered(c) ==
    IF Contains(kw_electronic, c) THEN kw_electronic \o <<"s">>
    ELSE IF Contains(kw_office, c) THEN kw_office
    ELSE IF Contains(kw_kitchen, c) THEN kw_kitchen
    ELSE IF Contains(kw_fitness, c) THEN kw_fitness
    ELSE c

normalize_category(c) ==
    IF Contains(kw_office, c) THEN kw_office
    ELSE IF Contains(kw_electronic, c) THEN kw_electronic \o <<"s">>
    ELSE IF Contains(kw_kitchen, c) THEN kw_kitchen
    ELSE IF Contains(kw_fitness, c) THEN kw_fitness
    ELSE c

\* A variant of the chain of lines 41 to 48 without its .str.lower().
clean_category_text_as_cased(c) ==
    CollapseWhitespace(StripChars(Strip(astype_str(c)), {QuoteChar}))

\* the chain of lines 41 to 48, one element
clean_category_text(c) ==
    Lower(CollapseWhitespace(StripChars(Strip(astype_str(c)), {QuoteChar})))

clean_categories(df) ==
    IF ~HasColumn(df, col_category) THEN Ok(df)
    ELSE IF IsDataFrame(df, col_category) THEN Raise("AttributeError")
    ELSE LET cat == Column(df, col_category)
         IN  Ok(SetColumn(df, col_category,
                    [i \in 1..Len(cat) |->
                        StrCell(normalize_category(clean_category_text(cat[i])))]))

\* A variant of clean_dates without its dropna.
clean_dates_keeping_rows(df) ==
    IF ~HasColumn(df, col_date_sold) THEN Ok(df)
    ELSE IF IsDataFrame(df, col_date_sold) THEN Raise("ValueError")
    ELSE LET col == Column(df, col_date_sold)
         IN  Ok(SetColumn(df, col_date_sold, [i \in 1..Len(col) |-> to_datetime(col[i])]))

clean_dates(df) ==
    IF ~HasColumn(df, col_date_sold) THEN Ok(df)
    ELSE IF IsDataFrame(df, col_date_sold) THEN Raise("ValueError")
    ELSE LET col == Column(df, col_date_sold)
             parsed == SetColumn(df, col_date_sold,
                           [i \in 1..Len(col) |-> to_datetime(col[i])])
         IN  Ok(dropna(parsed, {col_date_sold}))

\* the chain of lines 74 to 80, one element
clean_prodname_text(c) == Title(CollapseWhitespace(Strip(astype_str(c))))

\* A variant of handle_missing_values whose dropna looks at price alone.
handle_missing_values_price_only(df) ==
    LET named == IF ~HasColumn(df, col_prodname) THEN df
                 ELSE LET col == Column(df, col_prodname)
                      IN  SetColumn(df, col_prodname,
                              [i \in 1..Len(col) |-> StrCell(clean_prodname_text(col[i]))])
        priced == SetColumn(named, col_price, to_numeric(Column(named, col_price)))
        counted == SetColumn(priced, col_qty, to_numeric(Column(priced, col_qty)))
    IN  IF IsDataFrame(df, col_prodname) THEN Raise("AttributeError")
        ELSE IF ~HasColumn(df, col_price) THEN Raise("KeyError")
        ELSE IF IsDataFrame(df, col_price) THEN Raise("TypeError")
        ELSE IF ~HasColumn(df, col_qty) THEN Raise("KeyError")
        ELSE IF IsDataFrame(df, col_qty) THEN Raise("TypeError")
        ELSE Ok(dropna(counted, {col_price}))

handle_missing_values(df) ==
    LET named == IF ~HasColumn(df, col_prodname) THEN df
                 ELSE LET col == Column(df, col_prodname)
                      IN  SetColumn(df, col_prodname,
                              [i \in 1..Len(col) |-> StrCell(clean_prodname_text(col[i]))])
        priced == SetColumn(named, col_price, to_numeric(Column(named, col_price)))
        counted == SetColumn(priced, col_qty, to_numeric(Column(priced, col_qty)))
    IN  IF IsDataFrame(df, col_prodname) THEN Raise("AttributeError")
        ELSE IF ~HasColumn(df, col_price) THEN Raise("KeyError")
        ELSE IF IsDataFrame(df, col_price) THEN Raise("TypeError")
        ELSE IF ~HasColumn(df, col_qty) THEN Raise("KeyError")
        ELSE IF IsDataFrame(df, col_qty) THEN Raise("TypeError")
        ELSE Ok(dropna(counted, {col_price, col_qty}))

\* x > 0 of a numeric element; NaN > 0 is False
IsPositive(c) == IsNumber(c) /\ c.n > 0

\* A variant of remove_invalid_rows that compares with >= 0.
remove_invalid_rows_nonnegative(df) ==
    IF ~HasColumn(df, col_price) \/ ~HasColumn(df, col_qty) THEN Raise("KeyError")
    ELSE LET Keep(r) == /\ IsNumber(r.cells[Pos(df, col_price)])
                        /\ r.cells[Pos(df, col_price)].n >= 0
                        /\ IsNumber(r.cells[Pos(df, col_qty)])
                        /\ r.cells[Pos(df, col_qty)].n >= 0
         IN  Ok([df EXCEPT !.rows = SelectSeq(df.rows, Keep)])

\* (the entry point calls it on the result of handle_missing_values, where
\* price and qty each label one column)
remove_invalid_rows(df) ==
    IF ~HasColumn(df, col_price) \/ ~HasColumn(df, col_qty) THEN Raise("KeyError")
    ELSE LET Keep(r) == /\ IsPositive(r.cells[Pos(df, col_price)])
                        /\ IsPositive(r.cells[Pos(df, col_qty)])
         IN  Ok([df EXCEPT !.rows = SelectSeq(df.rows, Keep)])

\* DataFrame.drop_duplicates(): keep="first", rows compared on every column
\* (not on the index), NaN equal to NaN
RECURSIVE KeepFirst(_, _)
KeepFirst(rows, seen) ==
    IF rows = <<>> THEN <<>>
    ELSE IF Head(rows).cells \in seen THEN KeepFirst(Tail(rows), seen)
    ELSE <<Head(rows)>> \o KeepFirst(Tail(rows), seen \cup {Head(rows).cells})

\* A variant of drop_duplicates with keep="last".
drop_duplicates_keep_last(df) ==
    LET Reverse(q) == [i \in 1..Len(q) |-> q[Len(q) + 1 - i]]
    IN  Ok([df EXCEPT !.rows = Reverse(KeepFirst(Reverse(df.rows), {}))])

drop_duplicates(df) == Ok([df EXCEPT !.rows = KeepFirst(df.rows, {})])

----------------------------------------------------------------------------
(* The entry point. *)

\* one call of a cleaning stage on df_clean, rebinding df_clean to what it
\* returns; an exception it raises ends the run
Stage(name, res, next) ==
    /\ pc = name
    /\ events' = Append(events, name)
    /\ IF res.err # "none"
       THEN /\ pc' = "failed"
            /\ err' = res.err
            /\ UNCHANGED <<df_prev, df_clean>>
       ELSE /\ pc' = next
            /\ df_prev' = df_clean
            /\ df_clean' = res.df
            /\ UNCHANGED err
    /\ UNCHANGED <<csv, csv_exists, df_raw, out_csv, written>>

LoadData ==
    /\ pc = "load_data"
    /\ events' = Append(events, "load_data")
    /\ LET res == load_data(csv_exists, csv)
       IN  IF res.err # "none"
           THEN /\ pc' = "failed"
                /\ err' = res.err
                /\ UNCHANGED df_raw
           ELSE /\ pc' = "clean_column_names"
                /\ df_raw' = res.df
                /\ UNCHANGED err
    /\ UNCHANGED <<csv, csv_exists, df_prev, df_clean, out_csv, written>>

CleanColumnNames ==
    /\ pc = "clean_column_names"
    /\ events' = Append(events, "clean_column_names")
    /\ pc' = "clean_categories"
    /\ df_prev' = df_raw
    /\ df_clean' = clean_column_names(df_raw).df
    /\ UNCHANGED <<csv, csv_exists, df_raw, out_csv, written, err>>

CleanCategories == Stage("clean_categories", clean_categories(df_clean), "clean_dates")

\* A variant of the entry point that goes from clean_dates to
\* remove_invalid_rows, leaving handle_missing_values out.
CleanDates_skipping == Stage("clean_dates", clean_dates(df_clean), "remove_invalid_rows")

CleanDates == Stage("clean_dates", clean_dates(df_clean), "handle_missing_values")

HandleMissingValues ==
    Stage("handle_missing_values", handle_missing_values(df_clean), "remove_invalid_rows")

RemoveInvalidRows ==
    Stage("remove_invalid_rows", remove_invalid_rows(df_clean), "drop_duplicates")

DropDuplicates == Stage("drop_duplicates", drop_duplicates(df_clean), "to_csv")

\* df_clean.to_csv(cleaned_path, index=False): the file is written, or the
\* call raises (the directory data/processed is missing)
ToCsv ==
    /\ pc = "to_csv"
    /\ events' = Append(events, "to_csv")
    /\ \E ok \in BOOLEAN :
          IF ok
          THEN /\ pc' = "print"
               /\ out_csv' = df_clean
               /\ written' = written + 1
               /\ UNCHANGED err
          ELSE /\ pc' = "failed"
               /\ err' = "OSError"
               /\ UNCHANGED <<out_csv, written>>
    /\ UNCHANGED <<csv, csv_exists, df_raw, df_prev, df_clean>>

\* the two print calls that end the entry point
PrintSummary ==
    /\ pc = "print"
    /\ events' = Append(events, "print")
    /\ pc' = "done"
    /\ UNCHANGED <<csv, csv_exists, df_raw, df_prev, df_clean, out_csv, written, err>>

Next ==
    \/ LoadData
    \/ CleanColumnNames
    \/ CleanCategories
    \/ CleanDates
    \/ HandleMissingValues
    \/ RemoveInvalidRows
    \/ DropDuplicates
    \/ ToCsv
    \/ PrintSummary

----------------------------------------------------------------------------
(* The raw files the runs start from. *)

\* every sequence over chars of length at most n
SeqsUpTo(chars, n) == {<<>>} \cup UNION {[1..k -> chars] : k \in 1..n}

H_full ==
    <<<<<<"P","r","o","d","N","a","m","e"," ">>, "prodname">>,
      <<<<" ","C","A","T","E","G","O","R","Y"," ">>, "category">>,
      <<<<"P","r","i","c","e">>, "price">>,
      <<<<"Q","t","y">>, "qty">>,
      <<<<"D","a","t","e"," ","S","o","l","d">>, "date_sold">>>>

H_notes ==
    <<<<<<"P","r","o","d","N","a","m","e"," ">>, "prodname">>,
      <<<<" ","C","A","T","E","G","O","R","Y"," ">>, "category">>,
      <<<<"P","r","i","c","e">>, "price">>,
      <<<<"Q","t","y">>, "qty">>,
      <<<<"D","a","t","e"," ","S","o","l","d">>, "date_sold">>,
      <<<<"N","o","t","e","s">>, "notes">>>>

H_no_category ==
    <<<<<<"P","r","o","d","N","a","m","e"," ">>, "prodname">>,
      <<<<"P","r","i","c","e">>, "price">>,
      <<<<"Q","t","y">>, "qty">>,
      <<<<"D","a","t","e"," ","S","o","l","d">>, "date_sold">>>>

H_no_date_sold ==
    <<<<<<"P","r","o","d","N","a","m","e"," ">>, "prodname">>,
      <<<<" ","C","A","T","E","G","O","R","Y"," ">>, "category">>,
      <<<<"P","r","i","c","e">>, "price">>,
      <<<<"Q","t","y">>, "qty">>>>

H_no_prodname ==
    <<<<<<" ","C","A","T","E","G","O","R","Y"," ">>, "category">>,
      <<<<"P","r","i","c","e">>, "price">>,
      <<<<"Q","t","y">>, "qty">>,
      <<<<"D","a","t","e"," ","S","o","l","d">>, "date_sold">>>>

H_no_price ==
    <<<<<<"P","r","o","d","N","a","m","e"," ">>, "prodname">>,
      <<<<" ","C","A","T","E","G","O","R","Y"," ">>, "category">>,
      <<<<"Q","t","y">>, "qty">>,
      <<<<"D","a","t","e"," ","S","o","l","d">>, "date_sold">>>>

H_no_qty ==
    <<<<<<"P","r","o","d","N","a","m","e"," ">>, "prodname">>,
      <<<<" ","C","A","T","E","G","O","R","Y"," ">>, "category">>,
      <<<<"P","r","i","c","e">>, "price">>,
      <<<<"D","a","t","e"," ","S","o","l","d">>, "date_sold">>>>

H_two_price ==
    <<<<<<"P","r","o","d","N","a","m","e"," ">>, "prodname">>,
      <<<<" ","C","A","T","E","G","O","R","Y"," ">>, "category">>,
      <<<<"P","r","i","c","e">>, "price">>,
      <<<<"Q","t","y">>, "qty">>,
      <<<<"D","a","t","e"," ","S","o","l","d">>, "date_sold">>,
      <<<<"p","r","i","c","e"," ">>, "price">>>>

H_two_qty ==
    <<<<<<"P","r","o","d","N","a","m","e"," ">>, "prodname">>,
      <<<<" ","C","A","T","E","G","O","R","Y"," ">>, "category">>,
      <<<<"P","r","i","c","e">>, "price">>,
      <<<<"Q","t","y">>, "qty">>,
      <<<<"D","a","t","e"," ","S","o","l","d">>, "date_sold">>,
      <<<<" ","Q","T","Y">>, "qty">>>>

H_two_category ==
    <<<<<<"P","r","o","d","N","a","m","e"," ">>, "prodname">>,
      <<<<" ","C","A","T","E","G","O","R","Y"," ">>, "category">>,
      <<<<"P","r","i","c","e">>, "price">>,
      <<<<"Q","t","y">>, "qty">>,
      <<<<"D","a","t","e"," ","S","o","l","d">>, "date_sold">>,
      <<<<"c","a","t","e","g","o","r","y">>, "category">>>>

H_two_date_sold ==
    <<<<<<"P","r","o","d","N","a","m","e"," ">>, "prodname">>,
      <<<<" ","C","A","T","E","G","O","R","Y"," ">>, "category">>,
      <<<<"P","r","i","c","e">>, "price">>,
      <<<<"Q","t","y">>, "qty">>,
      <<<<"D","a","t","e"," ","S","o","l","d">>, "date_sold">>,
      <<<<"d","a","t","e","_","s","o","l","d">>, "date_sold">>>>

H_two_prodname ==
    <<<<<<"P","r","o","d","N","a","m","e"," ">>, "prodname">>,
      <<<<" ","C","A","T","E","G","O","R","Y"," ">>, "category">>,
      <<<<"P","r","i","c","e">>, "price">>,
      <<<<"Q","t","y">>, "qty">>,
      <<<<"D","a","t","e"," ","S","o","l","d">>, "date_sold">>,
      <<<<"p","r","o","d","n","a","m","e">>, "prodname">>>>

Headers ==
    {H_full,
     H_notes,
     H_no_category,
     H_no_date_sold,
     H_no_prodname,
     H_no_price,
     H_no_qty,
     H_two_price,
     H_two_qty,
     H_two_category,
     H_two_date_sold,
     H_two_prodname}

\* a valid row
Row1 ==
    [prodname |-> <<" ","s","t","a","n","d","i","n","g"," "," ","d","e","s","k"," ">>,
     category |-> <<"O","f","f","i","c","e">>,
     price |-> <<"1","5","0">>,
     qty |-> <<"2">>,
     date_sold |-> <<"2","0","2","4","-","0","1","-","0","5">>,
     notes |-> <<>>]

\* the same sale as Row1, written otherwise
Row2 ==
    [prodname |-> <<"S","t","a","n","d","i","n","g"," ","D","e","s","k">>,
     category |-> <<" ","o","f","f","i","c","e"," ">>,
     price |-> <<"1","5","0">>,
     qty |-> <<"2">>,
     date_sold |-> <<"2","0","2","4","-","0","1","-","0","5">>,
     notes |-> <<>>]

\* a negative price and no category
Row3 ==
    [prodname |-> <<"p","e","n"," ","s","e","t">>,
     category |-> <<>>,
     price |-> <<"-","1","0">>,
     qty |-> <<"3">>,
     date_sold |-> <<"2","0","2","4","-","0","1","-","0","6">>,
     notes |-> <<"x">>]

\* a price that is no number
Row4 ==
    [prodname |-> <<"b","l","e","n","d","e","r">>,
     category |-> <<"O","f","f","i","c","e"," ","f","u","r","n","i","t","u","r","e">>,
     price |-> <<"a","b","c">>,
     qty |-> <<"1">>,
     date_sold |-> <<"2","0","2","4","-","0","1","-","0","7">>,
     notes |-> <<"x">>]

\* no date
Row5 ==
    [prodname |-> <<"y","o","g","a"," ","m","a","t">>,
     category |-> <<"F","I","T","N","E","S","S">>,
     price |-> <<"9",".","5">>,
     qty |-> <<"4">>,
     date_sold |-> <<>>,
     notes |-> <<>>]

\* another valid row
Row6 ==
    [prodname |-> <<"u","s","b"," ","h","u","b">>,
     category |-> <<"E","l","e","c","t","r","o","n","i","c","s">>,
     price |-> <<"2","5">>,
     qty |-> <<"4">>,
     date_sold |-> <<"2","0","2","4","-","0","1","-","0","9">>,
     notes |-> <<"y">>]

RowPool == {Row1, Row2, Row3, Row4, Row5, Row6}

\* the file with the columns of header h and the rows rs, each row a record
\* of texts by field
FileOf(h, rs) ==
    [cols |-> [j \in 1..Len(h) |-> h[j][1]],
     rows |-> [i \in 1..Len(rs) |-> [j \in 1..Len(h) |-> rs[i][h[j][2]]]]]

\* tables of up to MaxRows rows of the pool under the headers that name every
\* column once, and of one row less under every header
TableFiles ==
    {FileOf(h, rs) : h \in {H_full, H_notes}, rs \in SeqsUpTo(RowPool, MaxRows)}
        \cup {FileOf(h, rs) : h \in Headers, rs \in SeqsUpTo(RowPool, MaxRows - 1)}

NumberTexts ==
    {<<"1","5","0">>,
     <<"-","1","0">>,
     <<"0">>,
     <<"a","b","c">>,
     <<>>,
     <<"9",".","9","9">>,
     <<"0",".","0">>,
     <<"+","2">>,
     <<"1",".","5",".","0">>,
     <<"-">>}

DateTexts ==
    {<<"2","0","2","4","-","0","1","-","0","5">>,
     <<>>,
     <<"2","0","2","4","-","0","2","-","3","0">>,
     <<"2","0","2","4","-","0","2","-","2","9">>,
     <<"s","o","o","n">>,
     <<"2","0","2","4","-","1","3","-","0","1">>}

\* one-row tables over the number and date texts
ValueFiles ==
    {FileOf(H_full, <<[Row1 EXCEPT !.price = p, !.qty = n, !.date_sold = d]>>) :
        p \in NumberTexts, n \in NumberTexts, d \in DateTexts}

\* the pairs of a pad before and a pad after, of at most n characters together
PadPairs(chars, n) ==
    {pp \in SeqsUpTo(chars, n) \X SeqsUpTo(chars, n) : Len(pp[1]) + Len(pp[2]) <= n}

PadChars == {" ", "\t", QuoteChar}

CategoryCores ==
    {<<"O","f","f","i","c","e">>,
     <<"O","F","F","I","C","E"," "," ","F","U","R","N","I","T","U","R","E">>,
     <<"E","l","e","c","t","r","o","n","i","c">>,
     <<"o","f","f","i","c","e"," ","e","l","e","c","t","r","o","n","i","c","s">>,
     <<"K","i","t","c","h","e","n">>,
     <<"k","i","t","c","h","e","n"," "," ","f","i","t","n","e","s","s">>,
     <<"F","i","t","n","e","s","s">>,
     <<"T","o","y","s">>,
     <<"H","o","m","e","\t"," ","G","a","r","d","e","n">>,
     <<>>}

\* one-row tables whose category is a core between two pads
CategoryFiles ==
    {FileOf(H_full, <<[Row6 EXCEPT !.category = pp[1] \o core \o pp[2]]>>) :
        pp \in PadPairs(PadChars, MaxPad), core \in CategoryCores}

NamePadChars == {" ", "\t", "_"}

NameCores ==
    {<<"P","r","o","d","N","a","m","e">>,
     <<"C","A","T","E","G","O","R","Y">>,
     <<"D","a","t","e"," ","S","o","l","d">>,
     <<"d","a","t","e"," "," ","s","o","l","d">>,
     <<"U","n","i","t","\t","P","r","i","c","e">>,
     <<"q","t","y">>}

\* one-row tables with a column whose header is a core between two pads,
\* beside a price, a qty and a date_sold column
NameFiles ==
    {FileOf(<<<<pp[1] \o core \o pp[2], "notes">>, H_full[3], <<<<"Q","t","y"," ">>, "qty">>, H_full[5]>>,
            <<Row6>>) :
        pp \in PadPairs(NamePadChars, MaxPad), core \in NameCores}

Files == TableFiles \cup ValueFiles \cup CategoryFiles \cup NameFiles

NoFile == [cols |-> <<>>, rows |-> <<>>]

Init ==
    /\ pc = "load_data"
    /\ \/ csv_exists = FALSE /\ csv = NoFile
       \/ csv_exists = TRUE /\ csv \in Files
    /\ df_raw = EmptyTable
    /\ df_prev = EmptyTable
    /\ df_clean = EmptyTable
    /\ out_csv = EmptyTable
    /\ written = 0
    /\ events = <<>>
    /\ err = "none"

Spec == Init /\ [][Next]_vars

----------------------------------------------------------------------------
(* What the claims are stated with. *)

\* the call of name was made and returned
StageDone(name) ==
    \E i \in 1..Len(events) : events[i] = name /\ ~(pc = "failed" /\ i = Len(events))

\* the call of name is the last call made, and it returned
JustRan(name) == events # <<>> /\ events[Len(events)] = name /\ pc # "failed"

RowCount(t) == Len(t.rows)

IdxSet(t) == {t.rows[i].idx : i \in 1..Len(t.rows)}

PosOf(t, idx) == CHOOSE i \in 1..Len(t.rows) : t.rows[i].idx = idx

CellOf(t, i, name) == t.rows[i].cells[Pos(t, name)]

\* after holds exactly the rows of before at the positions Keep accepts, each
\* once and in the order they have in before
KeptExactly(before, after, Keep(_)) ==
    /\ Cardinality(IdxSet(after)) = Len(after.rows)
    /\ IdxSet(after) = {before.rows[k].idx : k \in {k \in 1..Len(before.rows) : Keep(k)}}
    /\ \A a, b \in 1..Len(after.rows) :
          a < b => PosOf(before, after.rows[a].idx) < PosOf(before, after.rows[b].idx)

\* the cell df_raw holds for the row labelled idx, in the column that the
\* normalized label name names
RawCell(idx, name) == df_raw.rows[idx + 1].cells[Pos(df_clean, name)]

\* a loaded cell that is a number, or a text that reads as one
NumericCell(c) == IsNumber(c) \/ (c.k = "str" /\ ParseNumber(c.s).ok)

\* a loaded cell that is a number above zero, or a text that reads as one
PositiveCell(c) ==
    \/ IsNumber(c) /\ c.n > 0
    \/ c.k = "str" /\ ParseNumber(c.s).ok /\ ParseNumber(c.s).n > 0

IsDateCell(c) == c.k = "date"

NoDuplicateRows(t) ==
    \A a, b \in 1..Len(t.rows) : a # b => t.rows[a].cells # t.rows[b].cells

\* s without the characters of chars that stand before its first or after its
\* last character outside chars
Trimmed(s, chars) ==
    LET keep == {i \in 1..Len(s) : s[i] \notin chars}
    IN  IF keep = {} THEN <<>> ELSE SubSeq(s, MinOf(keep), MaxOf(keep))

\* s with every run of whitespace replaced by one space
Collapsed(s) ==
    LET K == {i \in 1..Len(s) : s[i] \notin Whitespace \/ i = 1 \/ s[i - 1] \notin Whitespace}
        nth(k) == CHOOSE i \in K : Cardinality({j \in K : j <= i}) = k
    IN  [k \in 1..Cardinality(K) |-> IF s[nth(k)] \in Whitespace THEN " " ELSE s[nth(k)]]

\* a cell as text, a missing one as the token nan
TextOf(c) == IF c.k = "nan" THEN <<"n", "a", "n">> ELSE astype_str(c)

\* the cleaned text c of a category value v
CleanedText(v) ==
    Lower(Collapsed(Trimmed(Trimmed(TextOf(v), Whitespace), {QuoteChar})))

\* the category value v contains the keyword kw, in whatever case
InputHas(kw, v) == Contains(kw, Lower(TextOf(v)))

kw_electronics == kw_electronic \o <<"s">>

NameClean(nm) ==
    /\ \A i \in 1..Len(nm) : ~IsUpper(nm[i]) /\ nm[i] # " "
    /\ nm # <<>> => nm[1] \notin Whitespace /\ nm[Len(nm)] \notin Whitespace

Order ==
    <<"load_data", "clean_column_names", "clean_categories", "clean_dates",
      "handle_missing_values", "remove_invalid_rows", "drop_duplicates", "to_csv", "print">>

----------------------------------------------------------------------------
(* The claims. *)

\* C1: once the six stages have run, every row of df_clean (and of the file
\* written from it) has a price and a qty that are numbers above zero, and is
\* a row whose loaded price and qty were numbers above zero.
C1_PositiveOutput ==
    /\ StageDone("drop_duplicates") =>
          /\ HasColumn(df_clean, col_price) /\ HasColumn(df_clean, col_qty)
          /\ \A i \in 1..RowCount(df_clean) :
                /\ IsNumber(CellOf(df_clean, i, col_price))
                /\ CellOf(df_clean, i, col_price).n > 0
                /\ IsNumber(CellOf(df_clean, i, col_qty))
                /\ CellOf(df_clean, i, col_qty).n > 0
                /\ PositiveCell(RawCell(df_clean.rows[i].idx, col_price))
                /\ PositiveCell(RawCell(df_clean.rows[i].idx, col_qty))
    /\ written > 0 => out_csv = df_clean /\ StageDone("drop_duplicates")

\* a run that wrote a row and dropped a row whose price or qty was a number
\* not above zero
C1_Witness ==
    /\ pc = "done"
    /\ RowCount(out_csv) >= 1
    /\ \E j \in 1..RowCount(df_raw) :
          /\ df_raw.rows[j].idx \notin IdxSet(out_csv)
          /\ \E nm \in {col_price, col_qty} :
                LET c == RawCell(j - 1, nm) IN NumericCell(c) /\ ~PositiveCell(c)

\* C2: on a table with a date_sold column, clean_dates keeps exactly the rows
\* whose date_sold parses, in their order, and from then on every date_sold of
\* df_clean, and of the file written, is a parsed date.
C2_DatesValid ==
    /\ JustRan("clean_dates") /\ HasColumn(df_prev, col_date_sold) =>
          /\ df_clean.cols = df_prev.cols
          /\ KeptExactly(df_prev, df_clean,
                LAMBDA k : IsDateCell(to_datetime(CellOf(df_prev, k, col_date_sold))))
    /\ StageDone("clean_dates") /\ HasColumn(df_clean, col_date_sold) =>
          \A i \in 1..RowCount(df_clean) : IsDateCell(CellOf(df_clean, i, col_date_sold))
    /\ written > 0 /\ HasColumn(out_csv, col_date_sold) =>
          \A i \in 1..RowCount(out_csv) : IsDateCell(CellOf(out_csv, i, col_date_sold))

\* clean_dates has kept two rows and dropped another
C2_Witness ==
    /\ JustRan("clean_dates")
    /\ HasColumn(df_prev, col_date_sold)
    /\ RowCount(df_clean) >= 2
    /\ RowCount(df_prev) > RowCount(df_clean)

\* C3: drop_duplicates keeps exactly the rows that no earlier row equals on
\* every column, unchanged and in their order, so that no two rows of its
\* output, and of the file written, are equal on every column.
C3_FirstOccurrences ==
    /\ JustRan("drop_duplicates") =>
          /\ df_clean.cols = df_prev.cols
          /\ KeptExactly(df_prev, df_clean,
                LAMBDA k : \A j \in 1..(k - 1) : df_prev.rows[j].cells # df_prev.rows[k].cells)
          /\ \A a \in 1..RowCount(df_clean) :
                df_clean.rows[a] = df_prev.rows[PosOf(df_prev, df_clean.rows[a].idx)]
    /\ StageDone("drop_duplicates") => NoDuplicateRows(df_clean)
    /\ written > 0 => NoDuplicateRows(out_csv)

\* drop_duplicates has kept two rows and dropped a repetition
C3_Witness ==
    /\ JustRan("drop_duplicates")
    /\ RowCount(df_clean) >= 2
    /\ RowCount(df_prev) > RowCount(df_clean)

\* C4 as claimed: whatever else a category value contains, clean_categories
\* gives office when it contains "office", electronics when it contains
\* "electronic", kitchen when it contains "kitchen" and fitness when it
\* contains "fitness" (in any case, inside any whitespace and quotes).
C4_EveryKeywordWins ==
    JustRan("clean_categories") /\ HasColumn(df_prev, col_category) =>
        \A i \in 1..RowCount(df_prev) :
            LET v   == CellOf(df_prev, i, col_category)
                out == CellOf(df_clean, i, col_category)
            IN  /\ InputHas(kw_office, v) => out = StrCell(kw_office)
                /\ InputHas(kw_electronic, v) => out = StrCell(kw_electronics)
                /\ InputHas(kw_kitchen, v) => out = StrCell(kw_kitchen)
                /\ InputHas(kw_fitness, v) => out = StrCell(kw_fitness)

\* C4 as amended: clean_categories gives office for every category value that
\* contains "office"; electronics for every value that contains "electronic"
\* and not "office"; kitchen for every value that contains "kitchen" and
\* neither of those; fitness for every value that contains "fitness" and none
\* of the other three (in any case, inside any whitespace and quotes).
C4_FirstKeywordWins ==
    JustRan("clean_categories") /\ HasColumn(df_prev, col_category) =>
        \A i \in 1..RowCount(df_prev) :
            LET v   == CellOf(df_prev, i, col_category)
                out == CellOf(df_clean, i, col_category)
                o   == InputHas(kw_office, v)
                e   == InputHas(kw_electronic, v)
                k   == InputHas(kw_kitchen, v)
                f   == InputHas(kw_fitness, v)
            IN  /\ o => out = StrCell(kw_office)
                /\ e /\ ~o => out = StrCell(kw_electronics)
                /\ k /\ ~o /\ ~e => out = StrCell(kw_kitchen)
                /\ f /\ ~o /\ ~e /\ ~k => out = StrCell(kw_fitness)

\* clean_categories has given kitchen for an upper-case or padded value that
\* contains "kitchen" and "fitness"
C4_Witness ==
    /\ JustRan("clean_categories")
    /\ HasColumn(df_prev, col_category)
    /\ \E i \in 1..RowCount(df_prev) :
          LET v == CellOf(df_prev, i, col_category)
          IN  /\ InputHas(kw_kitchen, v) /\ InputHas(kw_fitness, v)
              /\ ~Contains(kw_kitchen, TextOf(v)) \/ TextOf(v)[1] \in PadChars
              /\ CellOf(df_clean, i, col_category) = StrCell(kw_kitchen)

\* C5: handle_missing_values keeps exactly the rows whose price and qty are
\* both numbers or texts that read as numbers, in their order.
C5_NumericDropLaw ==
    JustRan("handle_missing_values") =>
        /\ df_clean.cols = df_prev.cols
        /\ KeptExactly(df_prev, df_clean,
              LAMBDA k : /\ NumericCell(CellOf(df_prev, k, col_price))
                         /\ NumericCell(CellOf(df_prev, k, col_qty)))
        /\ \A i \in 1..RowCount(df_clean) :
              /\ IsNumber(CellOf(df_clean, i, col_price))
              /\ IsNumber(CellOf(df_clean, i, col_qty))

\* handle_missing_values has kept a row and dropped a row whose qty is a
\* number and whose price is none
C5_Witness ==
    /\ JustRan("handle_missing_values")
    /\ RowCount(df_clean) >= 1
    /\ \E k \in 1..RowCount(df_prev) :
          /\ ~NumericCell(CellOf(df_prev, k, col_price))
          /\ NumericCell(CellOf(df_prev, k, col_qty))
          /\ df_prev.rows[k].idx \notin IdxSet(df_clean)

\* C6: clean_column_names applied to its own result changes nothing; it keeps
\* the rows and the number of columns, and every label it gives has no upper
\* case letter, no space and no whitespace at either end.
C6_Idempotent ==
    JustRan("clean_column_names") =>
        /\ clean_column_names(df_clean).df = df_clean
        /\ df_clean.rows = df_prev.rows
        /\ Len(df_clean.cols) = Len(df_prev.cols)
        /\ \A j \in 1..Len(df_clean.cols) : NameClean(df_clean.cols[j])

\* clean_column_names has stripped a label, lowered it and put an underscore
\* for a space inside it
C6_Witness ==
    /\ JustRan("clean_column_names")
    /\ \E j \in 1..Len(df_clean.cols) :
          LET old == df_prev.cols[j]
              new == df_clean.cols[j]
          IN  /\ Len(new) < Len(old)
              /\ \E i \in 1..Len(old) : IsUpper(old[i])
              /\ \E i \in 1..Len(new) : new[i] = "_" /\ Contains(<<" ">>, Strip(old))

\* C7 as claimed: a stage raises if and only if price or qty is absent when
\* handle_missing_values runs; then nothing is written; and the absence of
\* category, date_sold or prodname makes no stage raise and leaves the table
\* of that stage as it was.
C7_FailsIffRequiredAbsent ==
    LET absent == ~HasColumn(df_clean, col_price) \/ ~HasColumn(df_clean, col_qty)
        raised == pc = "failed" /\ err \notin {"FileNotFoundError", "OSError"}
    IN  StageDone("clean_column_names") =>
          /\ raised => /\ absent
                       /\ events[Len(events)] = "handle_missing_values"
                       /\ err = "KeyError"
                       /\ written = 0
          /\ absent /\ StageDone("clean_dates") /\ pc # "handle_missing_values" => raised
          /\ JustRan("clean_categories") /\ ~HasColumn(df_prev, col_category) =>
                df_clean = df_prev
          /\ JustRan("clean_dates") /\ ~HasColumn(df_prev, col_date_sold) =>
                df_clean = df_prev

\* C8: the calls of a run are a prefix of load, the six stages in their
\* order, save, print; the file is written at most once, only by the save,
\* and only in a run in which every stage before it has returned.
C8_FixedOrder ==
    /\ Len(events) <= Len(Order)
    /\ \A i \in 1..Len(events) : events[i] = Order[i]
    /\ written <= 1
    /\ written = 1 <=> StageDone("to_csv")
    /\ written = 1 =>
          /\ err = "none"
          /\ \A i \in 1..7 : StageDone(Order[i])

\* a run that went through every call and wrote the file
C8_Witness == pc = "done" /\ written = 1 /\ events = Order

\* C9: on a table with a category column, clean_categories keeps the rows,
\* their order and their other cells, and gives each category value v the
\* text f(c): c is v as text (nan for a missing value), without the
\* whitespace around it, then without the double quotes around that, with
\* every run of whitespace made one space, in lower case; f(c) is office if c
\* contains "office", else electronics if it contains "electronic", else
\* kitchen if it contains "kitchen", else fitness if it contains "fitness",
\* else c.
C9_CategoryValue ==
    JustRan("clean_categories") /\ HasColumn(df_prev, col_category) =>
        /\ df_clean.cols = df_prev.cols
        /\ RowCount(df_clean) = RowCount(df_prev)
        /\ \A i \in 1..RowCount(df_prev) :
              LET c   == CleanedText(CellOf(df_prev, i, col_category))
                  out == CellOf(df_clean, i, col_category)
                  o   == Contains(kw_office, c)
                  e   == Contains(kw_electronic, c)
                  k   == Contains(kw_kitchen, c)
                  f   == Contains(kw_fitness, c)
              IN  /\ df_clean.rows[i].idx = df_prev.rows[i].idx
                  /\ \A j \in 1..Len(df_prev.cols) :
                        j # Pos(df_prev, col_category) =>
                            df_clean.rows[i].cells[j] = df_prev.rows[i].cells[j]
                  /\ out.k = "str"
                  /\ o => out.s = kw_office
                  /\ ~o /\ e => out.s = kw_electronics
                  /\ ~o /\ ~e /\ k => out.s = kw_kitchen
                  /\ ~o /\ ~e /\ ~k /\ f => out.s = kw_fitness
                  /\ ~o /\ ~e /\ ~k /\ ~f => out.s = c

\* clean_categories has given the token nan for a missing category and office
\* for a value that is not the text office
C9_Witness ==
    /\ JustRan("clean_categories")
    /\ HasColumn(df_prev, col_category)
    /\ \E i, j \in 1..RowCount(df_prev) :
          /\ CellOf(df_prev, i, col_category) = NaN
          /\ CellOf(df_clean, i, col_category) = StrCell(<<"n", "a", "n">>)
          /\ CellOf(df_prev, j, col_category) # StrCell(kw_office)
          /\ CellOf(df_clean, j, col_category) = StrCell(kw_office)

\* C10 as claimed: for a category value that contains none of the four
\* keywords, the value clean_categories gives has no upper case letter, no
\* whitespace and no double quote at either end, and no two whitespace
\* characters in a row.
C10_PassThroughClean ==
    JustRan("clean_categories") /\ HasColumn(df_prev, col_category) =>
        \A i \in 1..RowCount(df_prev) :
            LET v == CellOf(df_prev, i, col_category)
                o == CellOf(df_clean, i, col_category).s
            IN  (\A kw \in {kw_office, kw_electronic, kw_kitchen, kw_fitness} : ~InputHas(kw, v)) =>
                   /\ \A j \in 1..Len(o) : ~IsUpper(o[j])
                   /\ o # <<>> => /\ o[1] \notin Whitespace \cup {QuoteChar}
                                  /\ o[Len(o)] \notin Whitespace \cup {QuoteChar}
                   /\ \A j \in 1..(Len(o) - 1) :
                         ~(o[j] \in Whitespace /\ o[j + 1] \in Whitespace)

====
